---------------------------- MODULE Spec2Model ----------------------------
(***************************************************************************)
(* rPPG Focus Monitor (src/src/App.jsx): the HeartFocusApp component, its  *)
(* controls (startCamera, startDemo, stop, calibrateBaseline), the         *)
(* requestAnimationFrame loop and the signal pipeline behind pushSample.   *)
(*                                                                         *)
(* Units.  Times are integer milliseconds (performance.now(); the code's   *)
(* seconds are ms / 1000).  Brightness and filtered values are fixed-point *)
(* with 100 units per brightness level, biquad coefficients are            *)
(* fixed-point with CoefScale units per 1.0, fpsEMA is in 1/1000 Hz.       *)
(* A JavaScript null / NaN is Null.                                        *)
(***************************************************************************)
EXTENDS Integers, Sequences, FiniteSets, TLC

VARIABLES
  now,         \* performance.now(), ms
  env,         \* React state env: secure, hasMediaDevices; camera permission
  rs,          \* React state of the last committed render
  runningRef,  \* runningRef.current
  st,          \* stRef.current
  video,       \* the <video> behind videoRef: srcObject, videoWidth > 0, still mounted
  tracks,      \* tracks[i]: whether MediaStream i still has live tracks
  calls,       \* startCamera invocations suspended at an await
  raf,         \* pending requestAnimationFrame(loop) callbacks, oldest first
  out,         \* what the last loop callback did (its locals)
  ctl,         \* the last control call made: "none", "start" or "stop"
  mesh,        \* the useFaceMesh hook: its effect, refs, timers and detect chains
  used         \* budget counters: ticks, jitters, calls, demos; the rejections
               \* caught so far and the name of the last error thrown

vars == <<now, env, rs, runningRef, st, video, tracks, calls, raf, out, ctl, mesh, used>>

Null == 0 - 1

\* ------------------------------------------------------------------------
\* Bounds of the model
\* ------------------------------------------------------------------------
MaxTicks == 4         \* loop callbacks explored by Spec
MaxBufTicks == 5      \* loop callbacks explored by SpecBuf
MaxLongTicks == 52    \* loop callbacks explored by SpecLong
MaxJitter == 1        \* irregular frame intervals in SpecLong
MaxCalls == 2         \* startCamera invocations per behaviour
MaxDemos == 1         \* startDemo invocations per behaviour
MaxCalibrations == 1  \* calibrateBaseline invocations per behaviour
MaxFocusIbis == 3      \* longest IBI list drawn by SpecFocus
MaxRateTicks == 12    \* loop callbacks explored by SpecRate
MaxPeakTicks == 9      \* samples fed to detectPeakAndIBI by SpecPeak
MaxNoiseHalfPeriod == 25  \* longest half period of the noise square waves of SpecSpectrum
MaxSegTicks == 6       \* samples buffered by SpecSegment
MaxPowers == 4         \* longest array of powers drawn by SpecArgmax
MaxGapTicks == 13      \* loop callbacks explored by SpecGap
MaxStandaloneDemos == 2 \* clicks on the demo button of the standalone variant
MaxTrimTicks == 5      \* samples fed to trimBuffers by SpecTrim
MaxEffects == 2        \* times the useFaceMesh effect is set up
MaxMeshSteps == 4      \* timer, frame and send callbacks of useFaceMesh explored

\* Frame intervals (ms): a repeated clock reading, a steady frame clock, a frame
\* delayed by a third of a second, and a gap longer than the retention window.
SteadyDt == 166
DtSet == {0, SteadyDt, 61000}
JitterDtSet == {300}
\* ROI mean brightness (fixed-point): a pulse alternating around 128.
GLo == 12000
GHi == 13600
\* Bins the spectral argmax may land on, with the quality ratio (x10, 0 = none).
SpectralOutcomes == {<<26, 50>>, <<119, 0>>}

\* ------------------------------------------------------------------------
\* Program constants
\* ------------------------------------------------------------------------
CoefScale == 1000
maxBufSec == 60000        \* st.maxBufSec = 60 (s)
RefractoryMs == 330       \* (tPeak - st.lastPeakT) > 0.33
MaxIbis == 20             \* if (st.ibis.length > 20) st.ibis.shift()
DefaultHrBase == 70       \* baselineHR ?? 70
DefaultRmBase == 40       \* baselineRMSSD ?? 40
SegmentSec == 12000       \* getLatestSegment(st.bvp, st.t, 12)
PeakWinSec == 5           \* Math.min(5, st.maxBufSec)
InitFpsEMA == 30000       \* fpsEMA: 30
SelfTestLen == 360        \* runSelfTests: N = fs * dur = 30 * 12
SelfTestBins == 120       \* runSelfTests: goertzelSpectrum(x, fs, [0.7, 3.0], 120)

\* ------------------------------------------------------------------------
\* Arithmetic helpers
\* ------------------------------------------------------------------------
Max(a, b) == IF a >= b THEN a ELSE b
Min(a, b) == IF a <= b THEN a ELSE b

\* Math.round(a / b) for b > 0: the nearest integer, halves rounded up.
RDiv(a, b) == (2 * a + b) \div (2 * b)

\* Math.max(min, Math.min(max, v))
clamp(v, lo, hi) == Max(lo, Min(hi, v))

RECURSIVE SumSeq(_)
SumSeq(s) == IF s = <<>> THEN 0 ELSE Head(s) + SumSeq(Tail(s))

Last(s) == s[Len(s)]

MaxOfSet(S) == CHOOSE x \in S : \A y \in S : y <= x

\* floor(sqrt(x)) by bisection on [lo, hi].
RECURSIVE ISqrtIn(_, _, _)
ISqrtIn(x, lo, hi) ==
  IF lo >= hi THEN lo
  ELSE LET mid == (lo + hi + 1) \div 2
       IN IF mid * mid <= x THEN ISqrtIn(x, mid, hi) ELSE ISqrtIn(x, lo, mid - 1)
ISqrt(x) == ISqrtIn(x, 0, 46340)

\* ------------------------------------------------------------------------
\* Processing helpers
\* ------------------------------------------------------------------------

\* movingAverageTail(arr, win): the mean of the last min(win, length) entries.
movingAverageTail(arr, win) ==
  IF Len(arr) = 0 THEN 0
  ELSE LET n == Min(win, Len(arr))
       IN RDiv(SumSeq(SubSeq(arr, Len(arr) - n + 1, Len(arr))), n)

HPCoefTable ==
  << <<732, -1464, 732, -1391, 537>>, <<753, -1506, 753, -1445, 568>>, <<771, -1543, 771, -1490, 596>>,
     <<787, -1574, 787, -1528, 620>>, <<801, -1601, 801, -1561, 641>>, <<813, -1625, 813, -1590, 661>>,
     <<823, -1646, 823, -1615, 678>>, <<833, -1665, 833, -1637, 694>>, <<841, -1682, 841, -1657, 708>>,
     <<849, -1698, 849, -1675, 721>>, <<856, -1712, 856, -1691, 733>>, <<862, -1725, 862, -1706, 744>>,
     <<868, -1736, 868, -1719, 754>>, <<873, -1747, 873, -1731, 763>>, <<878, -1757, 878, -1742, 772>>,
     <<883, -1766, 883, -1752, 780>>, <<887, -1774, 887, -1762, 787>>, <<891, -1782, 891, -1770, 794>>,
     <<895, -1790, 895, -1779, 801>>, <<898, -1797, 898, -1786, 807>>, <<902, -1803, 902, -1793, 813>>,
     <<905, -1809, 905, -1800, 818>>, <<907, -1815, 907, -1806, 823>>, <<910, -1820, 910, -1812, 828>>,
     <<913, -1825, 913, -1818, 833>>, <<915, -1830, 915, -1823, 837>>, <<917, -1834, 917, -1828, 841>>,
     <<919, -1839, 919, -1832, 845>>, <<921, -1843, 921, -1837, 849>>, <<923, -1847, 923, -1841, 853>>,
     <<925, -1850, 925, -1845, 856>>, <<927, -1854, 927, -1849, 859>>, <<929, -1857, 929, -1852, 862>>,
     <<930, -1860, 930, -1856, 865>>, <<932, -1864, 932, -1859, 868>>, <<933, -1866, 933, -1862, 871>>,
     <<935, -1869, 935, -1865, 874>>, <<936, -1872, 936, -1868, 876>>, <<937, -1875, 937, -1871, 878>>,
     <<939, -1877, 939, -1873, 881>>, <<940, -1879, 940, -1876, 883>>, <<941, -1882, 941, -1878, 885>>,
     <<942, -1884, 942, -1881, 887>>, <<943, -1886, 943, -1883, 889>>, <<944, -1888, 944, -1885, 891>>,
     <<945, -1890, 945, -1887, 893>>, <<946, -1892, 946, -1889, 895>>, <<947, -1894, 947, -1891, 897>>,
     <<948, -1896, 948, -1893, 898>>, <<949, -1897, 949, -1895, 900>>, <<949, -1899, 949, -1896, 902>>,
     <<950, -1901, 950, -1898, 903>>, <<951, -1902, 951, -1900, 905>>, <<952, -1904, 952, -1901, 906>>,
     <<953, -1905, 953, -1903, 907>>, <<953, -1907, 953, -1904, 909>>, <<954, -1908, 954, -1906, 910>>,
     <<955, -1909, 955, -1907, 911>>, <<955, -1911, 955, -1909, 913>>, <<956, -1912, 956, -1910, 914>>,
     <<957, -1913, 957, -1911, 915>>, <<957, -1914, 957, -1912, 916>>, <<958, -1915, 958, -1914, 917>>,
     <<958, -1917, 958, -1915, 918>>, <<959, -1918, 959, -1916, 919>>, <<959, -1919, 959, -1917, 920>>,
     <<960, -1920, 960, -1918, 921>>, <<960, -1921, 960, -1919, 922>>, <<961, -1922, 961, -1920, 923>>,
     <<961, -1923, 961, -1921, 924>>, <<962, -1924, 962, -1922, 925>>, <<962, -1925, 962, -1923, 926>>,
     <<963, -1926, 963, -1924, 927>>, <<963, -1926, 963, -1925, 928>>, <<964, -1927, 964, -1926, 929>>,
     <<964, -1928, 964, -1927, 929>>, <<964, -1929, 964, -1928, 930>>, <<965, -1930, 965, -1929, 931>>,
     <<965, -1931, 965, -1929, 932>>, <<966, -1931, 966, -1930, 932>>, <<966, -1932, 966, -1931, 933>> >>

LPCoefTable ==
  << <<391, 783, 391, 370, 196>>, <<336, 672, 336, 167, 177>>, <<293, 586, 293, 0, 172>>,
     <<258, 517, 258, -142, 175>>, <<230, 460, 230, -263, 184>>, <<207, 413, 207, -370, 196>>,
     <<187, 373, 187, -463, 210>>, <<170, 339, 170, -546, 225>>, <<155, 310, 155, -620, 240>>,
     <<142, 285, 142, -687, 256>>, <<131, 262, 131, -748, 272>>, <<121, 242, 121, -803, 288>>,
     <<112, 225, 112, -854, 303>>, <<105, 209, 105, -900, 319>>, <<98, 195, 98, -943, 333>>,
     <<91, 183, 91, -982, 348>>, <<86, 171, 86, -1019, 362>>, <<80, 161, 80, -1053, 375>>,
     <<76, 151, 76, -1085, 388>>, <<71, 143, 71, -1115, 401>>, <<67, 135, 67, -1143, 413>>,
     <<64, 128, 64, -1169, 425>>, <<60, 121, 60, -1194, 436>>, <<57, 115, 57, -1217, 447>>,
     <<55, 109, 55, -1239, 457>>, <<52, 104, 52, -1260, 468>>, <<49, 99, 49, -1280, 478>>,
     <<47, 94, 47, -1298, 487>>, <<45, 90, 45, -1316, 496>>, <<43, 86, 43, -1333, 505>>,
     <<41, 83, 41, -1349, 514>>, <<40, 79, 40, -1364, 522>>, <<38, 76, 38, -1379, 530>>,
     <<36, 73, 36, -1393, 538>>, <<35, 70, 35, -1406, 546>>, <<34, 67, 34, -1419, 553>>,
     <<32, 65, 32, -1431, 560>>, <<31, 62, 31, -1443, 567>>, <<30, 60, 30, -1454, 574>>,
     <<29, 58, 29, -1465, 581>>, <<28, 56, 28, -1475, 587>>, <<27, 54, 27, -1485, 593>>,
     <<26, 52, 26, -1495, 599>>, <<25, 50, 25, -1504, 605>>, <<24, 49, 24, -1513, 611>>,
     <<23, 47, 23, -1522, 616>>, <<23, 45, 23, -1530, 621>>, <<22, 44, 22, -1538, 627>>,
     <<21, 43, 21, -1546, 632>>, <<21, 41, 21, -1554, 637>>, <<20, 40, 20, -1561, 641>>,
     <<19, 39, 19, -1568, 646>>, <<19, 38, 19, -1575, 651>>, <<18, 37, 18, -1582, 655>>,
     <<18, 36, 18, -1588, 659>>, <<17, 35, 17, -1594, 664>>, <<17, 34, 17, -1600, 668>>,
     <<16, 33, 16, -1606, 672>>, <<16, 32, 16, -1612, 676>>, <<16, 31, 16, -1617, 680>>,
     <<15, 30, 15, -1623, 683>>, <<15, 30, 15, -1628, 687>>, <<14, 29, 14, -1633, 691>>,
     <<14, 28, 14, -1638, 694>>, <<14, 27, 14, -1643, 698>>, <<13, 27, 13, -1647, 701>>,
     <<13, 26, 13, -1652, 704>>, <<13, 25, 13, -1656, 707>>, <<12, 25, 12, -1661, 711>>,
     <<12, 24, 12, -1665, 714>>, <<12, 24, 12, -1669, 717>>, <<12, 23, 12, -1673, 720>>,
     <<11, 23, 11, -1677, 722>>, <<11, 22, 11, -1681, 725>>, <<11, 22, 11, -1685, 728>>,
     <<11, 21, 11, -1688, 731>>, <<10, 21, 10, -1692, 733>>, <<10, 20, 10, -1696, 736>>,
     <<10, 20, 10, -1699, 739>>, <<10, 19, 10, -1702, 741>>, <<10, 19, 10, -1706, 744>> >>

\* biquad(fs, fc, Q, type): the normalised coefficients <<bz0, bz1, bz2, az1, az2>>
\* of the RBJ low-pass (fc = 3.0) and high-pass (fc = 0.7) at Q = 1/sqrt(2), for
\* fs = 10 .. 90, times CoefScale and rounded.
BiquadCoef(fs, type) ==
  IF type = "hp" THEN HPCoefTable[fs - 9] ELSE LPCoefTable[fs - 9]

\* The object biquad() returns: its coefficients (fs, type) and the closure's
\* let x1=0,x2=0,y1=0,y2=0.
biquad(fs, type) == [fs |-> fs, type |-> type, x1 |-> 0, x2 |-> 0, y1 |-> 0, y2 |-> 0]
makeBiquadHP(fs) == biquad(fs, "hp")
makeBiquadLP(fs) == biquad(fs, "lp")

\* step(x): y = bz0*x + bz1*x1 + bz2*x2 - az1*y1 - az2*y2; x2=x1; x1=x; y2=y1; y1=y.
BiquadStep(f, x) ==
  LET c == BiquadCoef(f.fs, f.type)
      y == RDiv(c[1] * x + c[2] * f.x1 + c[3] * f.x2 - c[4] * f.y1 - c[5] * f.y2,
                CoefScale)
  IN [f EXCEPT !.x2 = f.x1, !.x1 = x, !.y2 = f.y1, !.y1 = y]

\* The scan with i0 = i in place of i0 = i + 1: the first stale sample stays.
SegmentStartStale(t, windowSec) ==
  LET old == {i \in 1..Len(t) : t[i] < Last(t) - windowSec}
  IN IF old = {} THEN 1 ELSE MaxOfSet(old)

\* getLatestSegment: the index (1-based) the segment starts at.  The scan runs
\* from the tail and stops at the first t[i] < tmax - windowSec.
SegmentStart(t, windowSec) ==
  LET old == {i \in 1..Len(t) : t[i] < Last(t) - windowSec}
  IN IF old = {} THEN 1 ELSE MaxOfSet(old) + 1

\* getLatestSegment(sig, t, windowSec): sig.slice(i0) and fsUsed (1/1000 Hz).
getLatestSegment(sig, t, windowSec) ==
  IF Len(sig) = 0 \/ Len(t) = 0 THEN [segment |-> <<>>, fsUsed |-> 30000]
  ELSE LET i0 == SegmentStart(t, windowSec)
           span == Last(t) - t[i0]
           m == Max(1, Len(t) - i0)
       IN [segment |-> SubSeq(sig, i0, Len(sig)),
           fsUsed |-> IF span > 0 THEN Min(90000, Max(10000, RDiv(1000000 * m, span)))
                      ELSE 30000]

\* segment.length > fsUsed * 4, with fsUsed = dt > 0 ? clamp(1 / dt, 10, 90) : 30
\* and dt = (t[last] - t[i0]) / max(1, last - i0), compared exactly.
\* The guard with >= in place of >.
SegmentLongEnoughLoose(t, windowSec) ==
  IF Len(t) = 0 THEN FALSE
  ELSE LET i0 == SegmentStart(t, windowSec)
           L == Len(t) - i0 + 1
           span == Last(t) - t[i0]
           m == Max(1, Len(t) - i0)
       IN IF span <= 0 THEN L >= 4 * 30
          ELSE IF 1000 * m < 10 * span THEN L >= 4 * 10
          ELSE IF 1000 * m > 90 * span THEN L >= 4 * 90
          ELSE L * span >= 4 * 1000 * m

SegmentLongEnough(t, windowSec) ==
  IF Len(t) = 0 THEN FALSE
  ELSE LET i0 == SegmentStart(t, windowSec)
           L == Len(t) - i0 + 1
           span == Last(t) - t[i0]
           m == Max(1, Len(t) - i0)
       IN IF span <= 0 THEN L > 4 * 30
          ELSE IF 1000 * m < 10 * span THEN L > 4 * 10
          ELSE IF 1000 * m > 90 * span THEN L > 4 * 90
          ELSE L * span > 4 * 1000 * m

\* freqs[k] * 60, rounded: bin k of 120 over [0.7, 3.0] Hz (k = 0 .. 119).
BinBpm(k) == RDiv(42 * 119 + 138 * k, 119)

\* ------------------------------------------------------------------------
\* goertzelSpectrum(x, fs, band, bins) at fs = 30 Hz.  Frequencies are indices
\* into the grid f_j = 0.7 + 2.3 * j / 119 Hz (j = 0 .. 119) of the 120 bins
\* over [0.7, 3.0] Hz; band = <<j0, j1>> gives f0 and f1 on that grid.  The
\* tables hold 2 cos(w), cos(w) and sin(w) for w = 2 pi f_j / 30 in units of
\* 1 / GoertzelScale; samples are in tenths of a brightness level.
\* ------------------------------------------------------------------------
GoertzelScale == 10000

GoertzelCoeffTable ==
  <<
    19785, 19773, 19761, 19749, 19736, 19722, 19709, 19695, 19680, 19666, 19651, 19636,
    19620, 19604, 19588, 19572, 19555, 19538, 19520, 19502, 19484, 19466, 19447, 19428,
    19409, 19389, 19369, 19349, 19328, 19307, 19286, 19264, 19242, 19220, 19198, 19175,
    19151, 19128, 19104, 19080, 19056, 19031, 19006, 18980, 18955, 18929, 18903, 18876,
    18849, 18822, 18794, 18766, 18738, 18710, 18681, 18652, 18623, 18593, 18563, 18533,
    18502, 18471, 18440, 18408, 18377, 18345, 18312, 18279, 18246, 18213, 18180, 18146,
    18112, 18077, 18042, 18007, 17972, 17936, 17900, 17864, 17827, 17790, 17753, 17716,
    17678, 17640, 17602, 17563, 17524, 17485, 17446, 17406, 17366, 17326, 17285, 17244,
    17203, 17162, 17120, 17078, 17036, 16993, 16950, 16907, 16864, 16820, 16776, 16732,
    16688, 16643, 16598, 16552, 16507, 16461, 16415, 16369, 16322, 16275, 16228, 16180
  >>

GoertzelCosTable ==
  <<
    9893, 9887, 9881, 9874, 9868, 9861, 9854, 9847, 9840, 9833, 9826, 9818,
    9810, 9802, 9794, 9786, 9777, 9769, 9760, 9751, 9742, 9733, 9724, 9714,
    9704, 9695, 9685, 9674, 9664, 9654, 9643, 9632, 9621, 9610, 9599, 9587,
    9576, 9564, 9552, 9540, 9528, 9515, 9503, 9490, 9477, 9464, 9451, 9438,
    9425, 9411, 9397, 9383, 9369, 9355, 9341, 9326, 9311, 9296, 9281, 9266,
    9251, 9236, 9220, 9204, 9188, 9172, 9156, 9140, 9123, 9107, 9090, 9073,
    9056, 9039, 9021, 9004, 8986, 8968, 8950, 8932, 8914, 8895, 8877, 8858,
    8839, 8820, 8801, 8782, 8762, 8743, 8723, 8703, 8683, 8663, 8643, 8622,
    8602, 8581, 8560, 8539, 8518, 8497, 8475, 8454, 8432, 8410, 8388, 8366,
    8344, 8321, 8299, 8276, 8253, 8231, 8207, 8184, 8161, 8137, 8114, 8090
  >>

GoertzelSinTable ==
  <<
    1461, 1501, 1541, 1581, 1621, 1661, 1701, 1741, 1780, 1820, 1860, 1900,
    1939, 1979, 2019, 2058, 2098, 2138, 2177, 2217, 2256, 2296, 2335, 2374,
    2414, 2453, 2492, 2531, 2570, 2609, 2648, 2688, 2726, 2765, 2804, 2843,
    2882, 2921, 2959, 2998, 3037, 3075, 3114, 3152, 3190, 3229, 3267, 3305,
    3343, 3382, 3420, 3458, 3496, 3534, 3571, 3609, 3647, 3685, 3722, 3760,
    3797, 3835, 3872, 3909, 3946, 3984, 4021, 4058, 4095, 4132, 4168, 4205,
    4242, 4278, 4315, 4352, 4388, 4424, 4461, 4497, 4533, 4569, 4605, 4641,
    4677, 4712, 4748, 4784, 4819, 4855, 4890, 4925, 4960, 4995, 5030, 5065,
    5100, 5135, 5170, 5204, 5239, 5273, 5308, 5342, 5376, 5410, 5444, 5478,
    5512, 5546, 5579, 5613, 5646, 5680, 5713, 5746, 5779, 5812, 5845, 5878
  >>

SelfTestSine ==
  <<
    0, 20, 39, 55, 68, 76, 80, 79, 72, 62, 47, 29,
    10, 0 - 10, 0 - 29, 0 - 47, 0 - 62, 0 - 72, 0 - 79, 0 - 80, 0 - 76, 0 - 68, 0 - 55, 0 - 39,
    0 - 20
  >>

\* The inner loop over the samples lo .. hi, from the state s = <<s_prev, s_prev2>>:
\* s = x[n] + coeff * s_prev - s_prev2; s_prev2 = s_prev; s_prev = s.
RECURSIVE GoertzelRun(_, _, _, _, _)
GoertzelRun(x, lo, hi, coeff, s) ==
  IF lo > hi THEN s
  ELSE IF lo = hi
  THEN <<x[lo] + (coeff * s[1] + GoertzelScale \div 2) \div GoertzelScale - s[2], s[1]>>
  ELSE LET mid == (lo + hi) \div 2
           half == GoertzelRun(x, lo, mid, coeff, s)
       IN IF half[1] = half[1] THEN GoertzelRun(x, mid + 1, hi, coeff, half) ELSE half

\* power = real^2 + imag^2 of the bin at grid frequency j.
GoertzelPower(x, j) ==
  LET s == GoertzelRun(x, 1, Len(x), GoertzelCoeffTable[j + 1], <<0, 0>>)
      real == s[1] - (s[2] * GoertzelCosTable[j + 1] + GoertzelScale \div 2) \div GoertzelScale
      imag == (s[2] * GoertzelSinTable[j + 1] + GoertzelScale \div 2) \div GoertzelScale
  IN real * real + imag * imag

\* f = f0 + (f1 - f0) * (i / (bins - 1)) as a grid index; 0 / 0 = NaN for bins = 1.
BinFreq(band, bins, i) ==
  IF bins = 1 THEN Null ELSE band[1] + ((band[2] - band[1]) * i) \div (bins - 1)

\* The function has no throw: whatever band and bins are it returns freqs and
\* powers with max(bins, 0) entries, NaN entries when bins = 1.
goertzelSpectrum(x, band, bins) ==
  [threw |-> FALSE,
   freqs |-> [i \in 1..bins |-> BinFreq(band, bins, i - 1)],
   powers |-> [i \in 1..bins |-> IF bins = 1 THEN Null
                                  ELSE GoertzelPower(x, BinFreq(band, bins, i - 1))]]

\* argmax(a): the 0-based index of the first largest entry; a comparison with
\* NaN is false; 0 for an empty array. ArgmaxRun(a, lo, hi, m) is the loop over
\* i = lo .. hi started with m, split in halves to keep the evaluation shallow.
RECURSIVE ArgmaxRun(_, _, _, _)
ArgmaxRun(a, lo, hi, m) ==
  IF lo > hi THEN m
  ELSE IF lo = hi
  THEN IF a[lo] # Null /\ a[m] # Null /\ a[lo] > a[m] THEN lo ELSE m
  ELSE LET mid == (lo + hi) \div 2
           half == ArgmaxRun(a, lo, mid, m)
       IN IF half = half THEN ArgmaxRun(a, mid + 1, hi, half) ELSE half

\* The index of the smallest entry instead.
argmin(a) ==
  IF Len(a) = 0 THEN 0
  ELSE (CHOOSE i \in 1..Len(a) : \A k \in 1..Len(a) : a[i] <= a[k]) - 1

\* The scan with >= in place of >: the last largest entry.
argmaxLast(a) ==
  IF Len(a) = 0 THEN 0
  ELSE (CHOOSE i \in 1..Len(a) :
          \A k \in 1..Len(a) : a[k] < a[i] \/ (a[k] = a[i] /\ k <= i)) - 1

argmax(a) == ArgmaxRun(a, 2, Len(a), 1) - 1

\* detectPeakAndIBI(st, fs): <<ibi or Null, lastPeakT>>.
SumSqDev(seg, mean) == SumSeq([i \in 1..Len(seg) |-> (seg[i] - mean) * (seg[i] - mean)])

PeakAt(y, fs) ==
  LET N == Len(y)
      i0 == Max(0, N - PeakWinSec * fs)
      seg == SubSeq(y, i0 + 1, N)
      mean == RDiv(SumSeq(seg), Len(seg))
      dev == y[N - 1] - mean
  IN \* y[i] > mean + 0.6 * sd, sd = sqrt(sum((v - mean)^2) / max(1, n - 1))
     /\ dev > 0
     /\ 25 * dev * dev * Max(1, Len(seg) - 1) > 9 * SumSqDev(seg, mean)
     /\ y[N - 1] > y[N - 2]
     /\ y[N - 1] > y[N]

\* detectPeakAndIBI that restarts the refractory window on a rejected candidate.
detectPeakRestart(s, fs) ==
  IF Len(s.bvp) < 5 THEN [ibi |-> Null, lastPeakT |-> s.lastPeakT]
  ELSE IF PeakAt(s.bvp, fs)
       THEN [ibi |-> IF (s.lastPeakT < 0 \/ s.t[Len(s.bvp) - 1] - s.lastPeakT > RefractoryMs)
                        /\ s.lastPeakT > 0
                     THEN s.t[Len(s.bvp) - 1] - s.lastPeakT ELSE Null,
             lastPeakT |-> s.t[Len(s.bvp) - 1]]
       ELSE [ibi |-> Null, lastPeakT |-> s.lastPeakT]

detectPeakAndIBI(s, fs) ==
  IF Len(s.bvp) < 5 THEN [ibi |-> Null, lastPeakT |-> s.lastPeakT]
  ELSE IF PeakAt(s.bvp, fs)
          /\ (s.lastPeakT < 0 \/ s.t[Len(s.bvp) - 1] - s.lastPeakT > RefractoryMs)
       THEN [ibi |-> IF s.lastPeakT > 0 THEN s.t[Len(s.bvp) - 1] - s.lastPeakT ELSE Null,
             lastPeakT |-> s.t[Len(s.bvp) - 1]]
       ELSE [ibi |-> Null, lastPeakT |-> s.lastPeakT]

\* computeRMSSD(ibisSec): the mean of the squared successive differences (ms^2)
\* as num / den; NaN below 3 intervals.
RmssdDefined(ibis) == Len(ibis) >= 3
RmssdNum(ibis) ==
  SumSeq([i \in 1..(Len(ibis) - 1) |-> (ibis[i + 1] - ibis[i]) * (ibis[i + 1] - ibis[i])])
\* The mean taken over n instead of the n - 1 differences.
RmssdDenAll(ibis) == Len(ibis)

RmssdDen(ibis) == Len(ibis) - 1
\* sqrt(mean) in tenths of a millisecond (floor), Null for NaN.
computeRMSSD(ibis) ==
  IF RmssdDefined(ibis) THEN ISqrt((100 * RmssdNum(ibis)) \div RmssdDen(ibis)) ELSE Null
\* Math.round(sqrt(mean)), exact.
RoundRMSSD(ibis) == (ISqrt((4 * RmssdNum(ibis)) \div RmssdDen(ibis)) + 1) \div 2

\* trimBuffers(st): the head-trim of t, gRaw, bvp, then the IBI loop.
RECURSIVE TrimCount(_, _)
TrimCount(t, cutoff) ==
  IF Len(t) > 0 /\ t[1] < cutoff THEN 1 + TrimCount(Tail(t), cutoff) ELSE 0

RECURSIVE TrimIbis(_, _)
TrimIbis(ibis, t) ==
  IF Len(ibis) > 0 /\ Len(t) > 1 /\ ~(Last(t) - t[1] <= maxBufSec)
  THEN TrimIbis(Tail(ibis), t)
  ELSE ibis

Drop(s, n) == SubSeq(s, n + 1, Len(s))

\* trimBuffers with an `if` in place of the `while`: at most one stale sample
\* leaves the head per call.
trimBuffersOnce(s) ==
  IF Len(s.t) = 0 THEN s
  ELSE LET n == IF s.t[1] < Last(s.t) - maxBufSec THEN 1 ELSE 0
           t2 == Drop(s.t, n)
       IN [s EXCEPT !.t = t2, !.gRaw = Drop(s.gRaw, n), !.bvp = Drop(s.bvp, n),
                    !.ibis = TrimIbis(s.ibis, t2)]

\* trimBuffers whose first loop forgets bvp.shift().
trimBuffersSkew(s) ==
  IF Len(s.t) = 0 THEN s
  ELSE LET n == TrimCount(s.t, Last(s.t) - maxBufSec)
           t2 == Drop(s.t, n)
       IN [s EXCEPT !.t = t2, !.gRaw = Drop(s.gRaw, n), !.ibis = TrimIbis(s.ibis, t2)]

\* trimBuffers with its two loops in the other order: the IBI loop sees the
\* span of the buffer before the head-trim.
trimBuffersIbisFirst(s) ==
  IF Len(s.t) = 0 THEN s
  ELSE LET n == TrimCount(s.t, Last(s.t) - maxBufSec)
       IN [s EXCEPT !.t = Drop(s.t, n), !.gRaw = Drop(s.gRaw, n), !.bvp = Drop(s.bvp, n),
                    !.ibis = TrimIbis(s.ibis, s.t)]

trimBuffers(s) ==
  IF Len(s.t) = 0 THEN s
  ELSE LET n == TrimCount(s.t, Last(s.t) - maxBufSec)
           t2 == Drop(s.t, n)
       IN [s EXCEPT !.t = t2, !.gRaw = Drop(s.gRaw, n), !.bvp = Drop(s.bvp, n),
                    !.ibis = TrimIbis(s.ibis, t2)]

\* The focus score of pushSample: hrBpm, baselineHR and baselineRMSSD are the
\* values of the render whose closure runs, rm is computeRMSSD (tenths of ms).
\*   hrZ = hrBpm ? (hrBpm - hrBase) / max(5, 0.1 * hrBase) : 0
\*   rmZ = rm ? (rmBase - rm) / max(10, 0.25 * rmBase) : 0
\*   score = max(0, min(100, round(50 + 20 * hrZ + 30 * rmZ)))
ScoreRaw(hrTerm, rmTerm, hrBase, rmBase) ==
  LET dh == Max(50, hrBase)
      dr == Max(40, rmBase)
  IN RDiv(50 * dh * dr + hrTerm * dr + rmTerm * dh, dh * dr)

FocusRaw(hrBpm, rm, baselineHR, baselineRMSSD) ==
  LET hrBase == IF baselineHR = Null THEN DefaultHrBase ELSE baselineHR
      rmBase == IF baselineRMSSD = Null THEN DefaultRmBase ELSE baselineRMSSD
      hrTerm == IF hrBpm # Null /\ hrBpm # 0 THEN 200 * (hrBpm - hrBase) ELSE 0
      rmTerm == IF rm # Null /\ rm # 0 THEN 12 * (10 * rmBase - rm) ELSE 0
  IN ScoreRaw(hrTerm, rmTerm, hrBase, rmBase)

\* The score without the Math.max(0, Math.min(100, ...)) around the rounded sum.
FocusScoreUnclamped(hrBpm, rm, baselineHR, baselineRMSSD) ==
  FocusRaw(hrBpm, rm, baselineHR, baselineRMSSD)

FocusScore(hrBpm, rm, baselineHR, baselineRMSSD) ==
  clamp(FocusRaw(hrBpm, rm, baselineHR, baselineRMSSD), 0, 100)

\* ------------------------------------------------------------------------
\* State
\* ------------------------------------------------------------------------

\* What the functions of one render close over: loop and pushSample read these
\* from the render in which requestAnimationFrame(loop) was first called.
Closure ==
  [demo |-> rs.demo, hrBpm |-> rs.hrBpm,
   baselineHR |-> rs.baselineHR, baselineRMSSD |-> rs.baselineRMSSD]

NoClosure == [demo |-> FALSE, hrBpm |-> Null, baselineHR |-> Null, baselineRMSSD |-> Null]

NoTick ==
  [kind |-> "none", fs |-> 0, hrUpdated |-> FALSE, ibi |-> Null, rm |-> Null,
   score |-> Null, cap |-> NoClosure]

\* useFaceMesh before its effect has run: no instance, both refs null.
\*   active, gen   whether the effect is in force (set up, not yet cleaned up)
\*                 and how many times it has been set up
\*   loaded        window.FaceMesh, drawConnectors and drawLandmarks exist
\*   timers        pending setTimeout(initFaceMesh, 500), by effect generation
\*   instances     the FaceMesh objects created: generation and open or closed
\*   faceMeshRef   faceMeshRef.current: an index of instances, 0 for null
\*   animationRef  animationRef.current: a requestAnimationFrame handle, 0 for null
\*   rafs          pending requestAnimationFrame(detect) callbacks
\*   sends         detect calls awaiting faceMesh.send(), by effect generation
InitMesh ==
  [active |-> FALSE, gen |-> 0, loaded |-> FALSE, timers |-> <<>>, instances |-> <<>>,
   faceMeshRef |-> 0, animationRef |-> 0, rafs |-> {}, sends |-> <<>>,
   nextId |-> 1, steps |-> 0]

InitSt ==
  [stream |-> 0, lastTs |-> 0, fpsEMA |-> InitFpsEMA,
   t |-> <<>>, gRaw |-> <<>>, bvp |-> <<>>,
   hp |-> makeBiquadHP(30), lp |-> makeBiquadLP(30),
   lastPeakT |-> 0 - 1000, ibis |-> <<>>]

InitRs ==
  [running |-> FALSE, demo |-> FALSE, lastError |-> "null",
   hrBpm |-> Null, snr |-> Null, rmssd |-> Null, focusScore |-> Null,
   baselineHR |-> Null, baselineRMSSD |-> Null]

Init ==
  /\ now = 1000
  /\ env \in [secure : BOOLEAN, hasMediaDevices : BOOLEAN]
  /\ rs = InitRs
  /\ runningRef = FALSE
  /\ st = InitSt
  /\ video = [srcObject |-> 0, ready |-> FALSE, mounted |-> TRUE]
  /\ tracks = <<>>
  /\ calls = <<>>
  /\ raf = <<>>
  /\ out = NoTick
  /\ ctl = "none"
  /\ mesh = InitMesh
  /\ used = [ticks |-> 0, jitters |-> 0, calls |-> 0, demos |-> 0, calibrations |-> 0,
            rejects |-> 0, thrown |-> ""]

\* ------------------------------------------------------------------------
\* Controls
\* ------------------------------------------------------------------------
RemoveAt(s, i) == SubSeq(s, 1, i - 1) \o SubSeq(s, i + 1, Len(s))

\* stop(): the tracks of st.stream are stopped, running and runningRef cleared.
StopTracks(tr, s) == IF s.stream # 0 THEN [tr EXCEPT ![s.stream] = FALSE] ELSE tr

\* startCamera without the env.secure and env.hasMediaDevices checks.
StartCameraUnguarded ==
  /\ video.mounted
  /\ (~rs.running \/ rs.demo)
  /\ used.calls < MaxCalls
  /\ used' = [used EXCEPT !.calls = @ + 1]
  /\ ctl' = "start"
  /\ rs' = [rs EXCEPT !.lastError = "null"]
  /\ calls' = Append(calls, [pc |-> "perm", cap |-> Closure, stream |-> 0])
  /\ UNCHANGED <<now, env, mesh, runningRef, st, video, tracks, raf, out>>

\* startCamera up to its first await (checkCameraPermission).
StartCamera ==
  /\ video.mounted
  /\ (~rs.running \/ rs.demo)
  /\ used.calls < MaxCalls
  /\ used' = [used EXCEPT !.calls = @ + 1]
  /\ ctl' = "start"
  /\ IF ~env.secure
     THEN /\ rs' = [rs EXCEPT !.lastError = "InsecureContext"]
          /\ calls' = calls
     ELSE IF ~env.hasMediaDevices
     THEN /\ rs' = [rs EXCEPT !.lastError = "NoMediaDevices"]
          /\ calls' = calls
     ELSE /\ rs' = [rs EXCEPT !.lastError = "null"]
          /\ calls' = Append(calls, [pc |-> "perm", cap |-> Closure, stream |-> 0])
  /\ UNCHANGED <<now, env, mesh, runningRef, st, video, tracks, raf, out>>

\* checkCameraPermission() resolves: 'denied' ends the call, anything else goes
\* on to getUserMedia.
PermissionSettles ==
  \E i \in 1..Len(calls), denied \in BOOLEAN :
    /\ calls[i].pc = "perm"
    /\ IF denied
       THEN /\ rs' = [rs EXCEPT !.lastError = "PermissionDenied"]
            /\ calls' = RemoveAt(calls, i)
       ELSE /\ rs' = rs
            /\ calls' = [calls EXCEPT ![i].pc = "gum"]
    /\ UNCHANGED <<now, env, mesh, runningRef, st, video, tracks, raf, out, ctl, used>>

\* The names of the errors getUserMedia and video.play() reject with; "" is an
\* error without a name.
GumErrors == {"NotAllowedError", ""}
PlayErrors == {"AbortError", ""}

\* The catch block of startCamera without setRunning(false).
CameraFailedKeepsRunning(name) ==
  [rs EXCEPT !.lastError = IF name = "" THEN "UnknownError" ELSE name]

\* The catch block of startCamera: setRunning(false) and
\* setLastError(e?.name || "UnknownError").
CameraFailed(name) ==
  [rs EXCEPT !.running = FALSE,
             !.lastError = IF name = "" THEN "UnknownError" ELSE name]

\* getUserMedia settles: a new stream goes to video.srcObject and play() is
\* awaited (the call returns with the stream in hand if videoRef.current is
\* gone), or the rejection is caught.
GetUserMediaSettles ==
  \E i \in 1..Len(calls), e \in {"ok"} \cup GumErrors :
    /\ calls[i].pc = "gum"
    /\ IF e = "ok"
       THEN /\ tracks' = Append(tracks, TRUE)
            /\ IF video.mounted
               THEN /\ video' = [video EXCEPT !.srcObject = Len(tracks) + 1]
                    /\ calls' = [calls EXCEPT ![i].pc = "play",
                                              ![i].stream = Len(tracks) + 1]
               ELSE /\ video' = video
                    /\ calls' = RemoveAt(calls, i)
            /\ UNCHANGED <<rs, used>>
       ELSE /\ rs' = CameraFailed(e)
            /\ calls' = RemoveAt(calls, i)
            /\ used' = [used EXCEPT !.rejects = @ + 1, !.thrown = e]
            /\ UNCHANGED <<video, tracks>>
    /\ UNCHANGED <<now, env, mesh, runningRef, st, raf, out, ctl>>

\* video.play() settles: the stream is stored and the loop started, or the
\* rejection is caught.  With videoRef.current gone, reading its videoWidth
\* after the await throws a TypeError into the same catch.
PlaySettles ==
  \E i \in 1..Len(calls), e \in {"ok"} \cup PlayErrors :
    /\ calls[i].pc = "play"
    /\ calls' = RemoveAt(calls, i)
    /\ IF e = "ok" /\ video.mounted
       THEN /\ st' = [st EXCEPT !.stream = calls[i].stream, !.lastTs = now]
            /\ video' = [video EXCEPT !.ready = TRUE]
            /\ rs' = [rs EXCEPT !.demo = FALSE, !.running = TRUE]
            /\ runningRef' = TRUE
            /\ raf' = Append(raf, calls[i].cap)
            /\ used' = used
       ELSE IF e = "ok"
       THEN /\ rs' = CameraFailed("TypeError")
            /\ used' = [used EXCEPT !.thrown = "TypeError"]
            /\ UNCHANGED <<st, video, runningRef, raf>>
       ELSE /\ rs' = CameraFailed(e)
            /\ used' = [used EXCEPT !.rejects = @ + 1, !.thrown = e]
            /\ UNCHANGED <<st, video, runningRef, raf>>
    /\ UNCHANGED <<now, env, mesh, tracks, out, ctl>>

\* startDemo(): stop(), then demo and running set and the loop scheduled.
StartDemo ==
  /\ video.mounted
  /\ used.demos < MaxDemos
  /\ used' = [used EXCEPT !.demos = @ + 1]
  /\ ctl' = "start"
  /\ tracks' = StopTracks(tracks, st)
  /\ st' = [st EXCEPT !.stream = 0, !.lastTs = now]
  /\ rs' = [rs EXCEPT !.demo = TRUE, !.running = TRUE]
  /\ runningRef' = TRUE
  /\ raf' = Append(raf, Closure)
  /\ UNCHANGED <<now, env, mesh, video, calls, out>>

\* The stop button (rendered while running && !demo).
Stop ==
  /\ video.mounted
  /\ rs.running /\ ~rs.demo
  /\ ctl' = "stop"
  /\ tracks' = StopTracks(tracks, st)
  /\ st' = [st EXCEPT !.stream = 0]
  /\ rs' = [rs EXCEPT !.running = FALSE]
  /\ runningRef' = FALSE
  /\ UNCHANGED <<now, env, mesh, video, calls, raf, out, used>>

\* The component unmounts: the cleanup effect calls stop() and videoRef.current
\* becomes null.  Pending promises and animation-frame callbacks stay pending.
Unmount ==
  /\ video.mounted
  /\ ctl' = "stop"
  /\ tracks' = StopTracks(tracks, st)
  /\ st' = [st EXCEPT !.stream = 0]
  /\ rs' = [rs EXCEPT !.running = FALSE]
  /\ runningRef' = FALSE
  /\ video' = [video EXCEPT !.mounted = FALSE, !.ready = FALSE]
  /\ UNCHANGED <<now, env, mesh, calls, raf, out, used>>

\* calibrateBaseline(): if (hrBpm && rmssd) both baselines are set.
CalibrateBaseline ==
  /\ video.mounted
  /\ rs.hrBpm # Null /\ rs.hrBpm # 0
  /\ rs.rmssd # Null /\ rs.rmssd # 0
  /\ rs' = [rs EXCEPT !.baselineHR = rs.hrBpm, !.baselineRMSSD = rs.rmssd]
  /\ used.calibrations < MaxCalibrations
  /\ used' = [used EXCEPT !.calibrations = @ + 1]
  /\ UNCHANGED <<now, env, mesh, runningRef, st, video, tracks, calls, raf, out, ctl>>

\* ------------------------------------------------------------------------
\* Main loop
\* ------------------------------------------------------------------------

\* The first lines of loop past the running check: dt, the fps EMA, fs and the
\* two filters made anew.
\*   instFps = 1 / max(dt, 1/120); fpsEMA = fpsEMA * 0.9 + instFps * 0.1
\*   fs = max(10, min(90, round(fpsEMA)))
InstFps(dt) == IF 120 * dt <= 1000 THEN 120000 ELSE RDiv(1000000, dt)

LoopHead(s, nowMs) ==
  LET ema == RDiv(9 * s.fpsEMA + InstFps(nowMs - s.lastTs), 10)
      fs == clamp(RDiv(ema, 1000), 10, 90)
  IN [s EXCEPT !.lastTs = nowMs, !.fpsEMA = ema,
               !.hp = makeBiquadHP(fs), !.lp = makeBiquadLP(fs)]

\* fs without Math.max(10, Math.min(90, ...)).
FsOfUnclamped(s) == RDiv(s.fpsEMA, 1000)

FsOf(s) == clamp(RDiv(s.fpsEMA, 1000), 10, 90)

\* pushSample(tSec, gMean, fs) up to the peak detector: the buffers after the
\* append, the filter steps and trimBuffers.
PushBuffers(s, tSec, gMean, fs) ==
  LET gRaw1 == Append(s.gRaw, gMean)
      detr == gMean - movingAverageTail(gRaw1, Max(5, fs))
      hp1 == BiquadStep(s.hp, detr)
      lp1 == BiquadStep(s.lp, hp1.y1)
  IN trimBuffers([s EXCEPT !.t = Append(s.t, tSec), !.gRaw = gRaw1,
                           !.hp = hp1, !.lp = lp1, !.bvp = Append(s.bvp, lp1.y1)])

\* st.ibis.push(newIBI); if (st.ibis.length > 20) st.ibis.shift()
\* The push without the shift.
PushIbiUnbounded(ibis, ibi) == Append(ibis, ibi)

PushIbi(ibis, ibi) ==
  IF Len(ibis) + 1 > MaxIbis THEN Tail(Append(ibis, ibi)) ELSE Append(ibis, ibi)

\* The tail of pushSample once newIBI has been pushed: rm = computeRMSSD(st.ibis),
\* setRmssd(Math.round(rm)) if finite, and setFocusScore(score) from the closure's
\* hrBpm and baselines.
PublishFocus(r, cap, ibis1) ==
  [r EXCEPT
     !.rmssd = IF computeRMSSD(ibis1) # Null THEN RoundRMSSD(ibis1) ELSE @,
     !.focusScore = FocusScore(cap.hrBpm, computeRMSSD(ibis1),
                               cap.baselineHR, cap.baselineRMSSD)]

\* setHrBpm / setSnr after the Goertzel spectrum: oc = <<argmax bin, quality x10>>.
PublishSpectral(r, oc) ==
  [r EXCEPT !.hrBpm = BinBpm(oc[1]), !.snr = IF oc[2] = 0 THEN Null ELSE oc[2]]

\* pushSample as run by the closure cap; oc is where the spectral argmax lands.
pushSample(s, cap, tSec, gMean, fs, oc) ==
  LET s3 == PushBuffers(s, tSec, gMean, fs)
      spectral == Len(s3.bvp) # 0 /\ SegmentLongEnough(s3.t, SegmentSec)
      det == detectPeakAndIBI(s3, fs)
      newIBI == det.ibi # Null /\ det.ibi # 0
      ibis1 == IF newIBI THEN PushIbi(s3.ibis, det.ibi) ELSE s3.ibis
      rs1 == IF spectral THEN PublishSpectral(rs, oc) ELSE rs
      rs2 == IF newIBI THEN PublishFocus(rs1, cap, ibis1) ELSE rs1
  IN /\ st' = [s3 EXCEPT !.lastPeakT = det.lastPeakT, !.ibis = ibis1]
     /\ rs' = rs2
     /\ out' = [kind |-> IF cap.demo THEN "demo" ELSE "camera", fs |-> fs,
                hrUpdated |-> spectral, ibi |-> IF newIBI THEN det.ibi ELSE Null,
                rm |-> IF newIBI THEN computeRMSSD(ibis1) ELSE Null,
                score |-> IF newIBI THEN rs2.focusScore ELSE Null, cap |-> cap]

\* Whether the spectral estimator would run on this sample (decides which
\* outcomes the environment has to supply).
WouldRunSpectral(s, tSec, gMean) ==
  LET s3 == PushBuffers(s, tSec, gMean, FsOf(s))
  IN Len(s3.bvp) # 0 /\ SegmentLongEnough(s3.t, SegmentSec)

\* The pending callback finds runningRef.current false and returns.
LoopReturns ==
  /\ raf # <<>>
  /\ ~runningRef
  /\ raf' = Tail(raf)
  /\ out' = [NoTick EXCEPT !.kind = "stopped", !.cap = Head(raf)]
  /\ UNCHANGED <<now, env, mesh, rs, runningRef, st, video, tracks, calls, ctl, used>>

\* Camera branch with no frame to read: the video has no videoWidth yet, or
\* drawImage / getImageData throws or returns no data.  The callback reschedules
\* itself without a sample.
LoopSkips(dts, maxTicks) ==
  /\ raf # <<>>
  /\ runningRef
  /\ ~Head(raf).demo
  /\ used.ticks < maxTicks
  /\ \E d \in dts :
       /\ now' = now + d
       /\ st' = LoopHead(st, now + d)
  /\ raf' = Append(Tail(raf), Head(raf))
  /\ out' = [NoTick EXCEPT !.kind = "notReady", !.cap = Head(raf), !.fs = FsOf(st')]
  /\ used' = [used EXCEPT !.ticks = @ + 1]
  /\ UNCHANGED <<env, mesh, rs, runningRef, video, tracks, calls, ctl>>

\* The callback takes a sample (synthetic if its closure's demo is true, else
\* the ROI mean of the video frame) and feeds pushSample.
LoopSamples(dts, jdts, gs, maxTicks) ==
  /\ raf # <<>>
  /\ runningRef
  /\ Head(raf).demo \/ video.ready
  /\ used.ticks < maxTicks
  /\ \E d \in dts \cup (IF used.jitters < MaxJitter THEN jdts ELSE {}) :
       /\ now' = now + d
       /\ used' = [used EXCEPT !.ticks = @ + 1,
                               !.jitters = IF d \in dts THEN @ ELSE @ + 1]
       /\ \E g \in gs :
            LET s1 == LoopHead(st, now + d)
            IN \E oc \in (IF WouldRunSpectral(s1, now + d, g)
                          THEN SpectralOutcomes ELSE {<<0, 0>>}) :
                 pushSample(s1, Head(raf), now + d, g, FsOf(s1), oc)
  /\ raf' = Append(Tail(raf), Head(raf))
  /\ UNCHANGED <<env, mesh, runningRef, video, tracks, calls, ctl>>

\* ------------------------------------------------------------------------
\* useFaceMesh (src/src/useFaceMesh.js)
\* ------------------------------------------------------------------------

\* detect() of effect generation g up to its first await or its end: with the
\* video ready and faceMeshRef.current set it awaits faceMeshRef.current.send(),
\* otherwise it goes straight to animationRef.current = requestAnimationFrame(detect).
ScheduleDetect(m, g) ==
  [m EXCEPT !.animationRef = m.nextId,
            !.rafs = @ \cup {[id |-> m.nextId, gen |-> g]},
            !.nextId = @ + 1]

detect(m, g, ready) ==
  IF ready /\ m.faceMeshRef # 0
  THEN [m EXCEPT !.sends = Append(@, g)]
  ELSE ScheduleDetect(m, g)

\* initFaceMesh() of effect generation g: retry in 500 ms while the library is
\* not loaded, else create the FaceMesh, store it in faceMeshRef and call detect().
initFaceMesh(m, g, ready) ==
  IF ~m.loaded
  THEN [m EXCEPT !.timers = Append(@, g)]
  ELSE detect([m EXCEPT !.instances = Append(@, [gen |-> g, open |-> TRUE]),
                        !.faceMeshRef = Len(m.instances) + 1], g, ready)

\* The scripts of MediaPipe finish loading.
ScriptsLoad ==
  /\ ~mesh.loaded
  /\ mesh' = [mesh EXCEPT !.loaded = TRUE]
  /\ UNCHANGED <<now, env, rs, runningRef, st, video, tracks, calls, raf, out, ctl, used>>

\* The effect runs (enabled with both refs set, on mount or after a change of
\* enabled or showMesh): initFaceMesh() is called.
EffectRuns ==
  /\ ~mesh.active
  /\ mesh.gen < MaxEffects
  /\ \E ready \in BOOLEAN :
       mesh' = initFaceMesh([mesh EXCEPT !.active = TRUE, !.gen = @ + 1],
                            mesh.gen + 1, ready)
  /\ UNCHANGED <<now, env, rs, runningRef, st, video, tracks, calls, raf, out, ctl, used>>

\* The effect's cleanup: cancelAnimationFrame(animationRef.current) and
\* faceMeshRef.current.close(), each if the ref is set.  Neither ref is cleared.
EffectCleanup(m) ==
  [m EXCEPT !.active = FALSE,
            !.rafs = IF m.animationRef # 0
                     THEN {r \in @ : r.id # m.animationRef} ELSE @,
            !.instances = IF m.faceMeshRef # 0
                          THEN [@ EXCEPT ![m.faceMeshRef].open = FALSE] ELSE @]

\* The hook is disabled, showMesh toggles or the component unmounts.
CleanupRuns ==
  /\ mesh.active
  /\ mesh' = EffectCleanup(mesh)
  /\ UNCHANGED <<now, env, rs, runningRef, st, video, tracks, calls, raf, out, ctl, used>>

\* A retry timer fires and calls initFaceMesh again.
TimerFires ==
  /\ mesh.steps < MaxMeshSteps
  /\ \E i \in 1..Len(mesh.timers), ready \in BOOLEAN :
       mesh' = initFaceMesh([mesh EXCEPT !.timers = RemoveAt(@, i), !.steps = @ + 1],
                            mesh.timers[i], ready)
  /\ UNCHANGED <<now, env, rs, runningRef, st, video, tracks, calls, raf, out, ctl, used>>

\* An animation frame runs a pending detect callback.
DetectFrame ==
  /\ mesh.steps < MaxMeshSteps
  /\ \E r \in mesh.rafs, ready \in BOOLEAN :
       mesh' = detect([mesh EXCEPT !.rafs = @ \ {r}, !.steps = @ + 1], r.gen, ready)
  /\ UNCHANGED <<now, env, rs, runningRef, st, video, tracks, calls, raf, out, ctl, used>>

\* faceMesh.send() settles: detect goes on to requestAnimationFrame(detect), or
\* the rejection ends that detect call.
SendSettles ==
  /\ mesh.steps < MaxMeshSteps
  /\ \E i \in 1..Len(mesh.sends), ok \in BOOLEAN :
       LET m1 == [mesh EXCEPT !.sends = RemoveAt(@, i), !.steps = @ + 1]
       IN mesh' = IF ok THEN ScheduleDetect(m1, mesh.sends[i]) ELSE m1
  /\ UNCHANGED <<now, env, rs, runningRef, st, video, tracks, calls, raf, out, ctl, used>>

\* ------------------------------------------------------------------------
\* Specifications
\* ------------------------------------------------------------------------
GSet == {GLo, GHi}
\* A pulse that alternates from frame to frame.
Pulse == {IF st.gRaw = <<>> \/ Last(st.gRaw) = GLo THEN GHi ELSE GLo}

\* Spec: the app under every control, a few steady frames deep.
Next ==
  \/ StartCamera
  \/ PermissionSettles
  \/ GetUserMediaSettles
  \/ PlaySettles
  \/ StartDemo
  \/ Stop
  \/ Unmount
  \/ LoopReturns
  \/ LoopSkips({SteadyDt}, MaxTicks)
  \/ LoopSamples({SteadyDt}, {}, Pulse, MaxTicks)

Spec == Init /\ [][Next]_vars

\* ------------------------------------------------------------------------
\* The standalone variant (src/r_ppg_focus_monitor_web_on_device.jsx)
\* ------------------------------------------------------------------------
\* Its component has no runningRef: loop tests the `running` state of the
\* render whose functions were handed to requestAnimationFrame.  The guards of
\* startCamera, checkCameraPermission, getUserMedia, the catch block, pushSample
\* and the helpers are the same code as in App.jsx, so PermissionSettles,
\* GetUserMediaSettles and pushSample serve both.  ctl is "start" from the
\* moment a loop callback is scheduled until stop() is called.

\* What loop and pushSample of one render close over in the standalone variant.
StandaloneClosure ==
  [demo |-> rs.demo, running |-> rs.running, hrBpm |-> rs.hrBpm,
   baselineHR |-> rs.baselineHR, baselineRMSSD |-> rs.baselineRMSSD]

\* startCamera up to its first await.
StandaloneStartCamera ==
  /\ (~rs.running \/ rs.demo)
  /\ used.calls < MaxCalls
  /\ used' = [used EXCEPT !.calls = @ + 1]
  /\ IF ~env.secure
     THEN /\ rs' = [rs EXCEPT !.lastError = "InsecureContext"]
          /\ calls' = calls
     ELSE IF ~env.hasMediaDevices
     THEN /\ rs' = [rs EXCEPT !.lastError = "NoMediaDevices"]
          /\ calls' = calls
     ELSE /\ rs' = [rs EXCEPT !.lastError = "null"]
          /\ calls' = Append(calls, [pc |-> "perm", cap |-> StandaloneClosure, stream |-> 0])
  /\ UNCHANGED <<now, env, mesh, runningRef, st, video, tracks, raf, out, ctl>>

\* video.play() settles: setDemo(false); setRunning(true);
\* requestAnimationFrame(loop) with the loop of the render that was clicked,
\* or the rejection is caught.
StandalonePlaySettles ==
  \E i \in 1..Len(calls), e \in {"ok"} \cup PlayErrors :
    /\ calls[i].pc = "play"
    /\ calls' = RemoveAt(calls, i)
    /\ IF e = "ok"
       THEN /\ st' = [st EXCEPT !.stream = calls[i].stream, !.lastTs = now]
            /\ video' = [video EXCEPT !.ready = TRUE]
            /\ rs' = [rs EXCEPT !.demo = FALSE, !.running = TRUE]
            /\ raf' = Append(raf, calls[i].cap)
            /\ ctl' = "start"
            /\ used' = used
       ELSE /\ rs' = CameraFailed(e)
            /\ used' = [used EXCEPT !.rejects = @ + 1, !.thrown = e]
            /\ UNCHANGED <<st, video, raf, ctl>>
    /\ UNCHANGED <<now, env, mesh, runningRef, tracks, out>>

\* startDemo(): stop(); setDemo(true); setRunning(true);
\* requestAnimationFrame(loop).
StandaloneStartDemo ==
  /\ used.demos < MaxStandaloneDemos
  /\ used' = [used EXCEPT !.demos = @ + 1]
  /\ ctl' = "start"
  /\ tracks' = StopTracks(tracks, st)
  /\ st' = [st EXCEPT !.stream = 0, !.lastTs = now]
  /\ rs' = [rs EXCEPT !.demo = TRUE, !.running = TRUE]
  /\ raf' = Append(raf, StandaloneClosure)
  /\ UNCHANGED <<now, env, mesh, runningRef, video, calls, out>>

\* The stop button (rendered while running && !demo): the tracks are stopped
\* and setRunning(false) is called.
StandaloneStop ==
  /\ rs.running /\ ~rs.demo
  /\ ctl' = "stop"
  /\ tracks' = StopTracks(tracks, st)
  /\ st' = [st EXCEPT !.stream = 0]
  /\ rs' = [rs EXCEPT !.running = FALSE]
  /\ UNCHANGED <<now, env, mesh, runningRef, video, calls, raf, out, used>>

\* loop: if (!running) return, on the running of the callback's own render.
StandaloneLoopReturns ==
  /\ raf # <<>>
  /\ ~Head(raf).running
  /\ raf' = Tail(raf)
  /\ out' = [NoTick EXCEPT !.kind = "stopped", !.cap = Head(raf)]
  /\ UNCHANGED <<now, env, mesh, rs, runningRef, st, video, tracks, calls, ctl, used>>

\* loop, camera branch without a frame: requestAnimationFrame(loop); return.
StandaloneLoopSkips ==
  /\ raf # <<>>
  /\ Head(raf).running
  /\ ~Head(raf).demo
  /\ ~video.ready \/ st.stream = 0
  /\ used.ticks < MaxTicks
  /\ now' = now + SteadyDt
  /\ st' = LoopHead(st, now + SteadyDt)
  /\ raf' = Append(Tail(raf), Head(raf))
  /\ out' = [NoTick EXCEPT !.kind = "notReady", !.cap = Head(raf), !.fs = FsOf(st')]
  /\ used' = [used EXCEPT !.ticks = @ + 1]
  /\ UNCHANGED <<env, mesh, rs, runningRef, video, tracks, calls, ctl>>

\* loop takes a sample, calls pushSample and reschedules itself.
StandaloneLoopSamples ==
  /\ raf # <<>>
  /\ Head(raf).running
  /\ Head(raf).demo \/ video.ready
  /\ used.ticks < MaxTicks
  /\ now' = now + SteadyDt
  /\ used' = [used EXCEPT !.ticks = @ + 1]
  /\ \E g \in Pulse :
       LET s1 == LoopHead(st, now + SteadyDt)
       IN \E oc \in (IF WouldRunSpectral(s1, now + SteadyDt, g)
                     THEN SpectralOutcomes ELSE {<<0, 0>>}) :
            pushSample(s1, Head(raf), now + SteadyDt, g, FsOf(s1), oc)
  /\ raf' = Append(Tail(raf), Head(raf))
  /\ UNCHANGED <<env, mesh, runningRef, video, tracks, calls, ctl>>

NextStandalone ==
  \/ StandaloneStartCamera
  \/ PermissionSettles
  \/ GetUserMediaSettles
  \/ StandalonePlaySettles
  \/ StandaloneStartDemo
  \/ StandaloneStop
  \/ StandaloneLoopReturns
  \/ StandaloneLoopSkips
  \/ StandaloneLoopSamples

SpecStandalone == Init /\ [][NextStandalone]_vars

\* SpecBuf: camera sessions started one at a time, under every frame interval
\* (repeated clock readings and gaps longer than the retention window).
InitSecure == Init /\ env.secure /\ env.hasMediaDevices

NextBuf ==
  \/ (calls = <<>> /\ StartCamera)
  \/ PermissionSettles
  \/ GetUserMediaSettles
  \/ PlaySettles
  \/ LoopSamples(DtSet, {}, GSet, MaxBufTicks)

SpecBuf == InitSecure /\ [][NextBuf]_vars

\* SpecLong: one camera session followed for many frames of a pulsing signal on
\* a steady frame clock with a bounded number of late frames.
NextLong ==
  \/ (calls = <<>> /\ StartCamera)
  \/ PermissionSettles
  \/ GetUserMediaSettles
  \/ PlaySettles
  \/ CalibrateBaseline
  \/ LoopSamples({SteadyDt}, JitterDtSet, Pulse, MaxLongTicks)

SpecLong == InitSecure /\ [][NextLong]_vars

\* SpecGap: camera sessions on a steady frame clock of a pulsing signal, with
\* one stall of 61 s between two frames (the tab in the background, or the
\* time between stop() and the next start).
GapDtSet == {61000}

NextGap ==
  \/ (calls = <<>> /\ StartCamera)
  \/ PermissionSettles
  \/ GetUserMediaSettles
  \/ PlaySettles
  \/ (calls = <<>> /\ Stop)
  \/ LoopReturns
  \/ LoopSamples({SteadyDt}, GapDtSet, Pulse, MaxGapTicks)

SpecGap == InitSecure /\ [][NextGap]_vars

\* SpecRate: the sampling-rate estimate of loop under extreme frame intervals:
\* repeated clock readings (dt = 0) and stalls of 61 s, on callbacks that find
\* no frame to read.
RateDtSet == {0, 61000}

NextRate ==
  \/ (calls = <<>> /\ StartCamera)
  \/ PermissionSettles
  \/ GetUserMediaSettles
  \/ PlaySettles
  \/ LoopSkips(RateDtSet, MaxRateTicks)

SpecRate == InitSecure /\ [][NextRate]_vars

\* The intervals of the RMSSD self test, ms.
SelfTestIbis == <<1000, 1000, 1000, 1040, 960>>

\* SpecSpectrum: runSelfTests under drawn noise, and goertzelSpectrum called
\* with drawn band and bins on the noise-free self-test signal.
\* The additive noise (Math.random() - 0.5) * 1.5 stays within +-0.75; it is
\* drawn as a square wave <<a, h>>: amplitude a (tenths) and half period h samples.
NoiseAmps == {0 - 7, 0 - 4, 4, 7}
NoiseSet == {<<0, 1>>} \cup (NoiseAmps \X (1..MaxNoiseHalfPeriod))
Noise(p, n) == IF ((n - 1) \div p[2]) % 2 = 0 THEN p[1] ELSE 0 - p[1]

\* x[n] = 8 sin(2 pi 1.2 n / 30) + noise, n = 0 .. N - 1, in tenths.
SelfTestSignal(p) ==
  [n \in 1..SelfTestLen |-> SelfTestSine[((n - 1) % Len(SelfTestSine)) + 1] + Noise(p, n)]

\* Whether freqs[k] * 60 lies within 3 of 72 bpm, for the grid frequency k.
WithinThreeOf72(k) ==
  /\ 69 * 119 <= 42 * 119 + 138 * k
  /\ 42 * 119 + 138 * k <= 75 * 119

\* runSelfTests(): the spectral test and the RMSSD test, then setTestResults.
RunSelfTests ==
  /\ out.kind = "none"
  /\ \E p \in NoiseSet :
       LET spec == goertzelSpectrum(SelfTestSignal(p), <<0, SelfTestBins - 1>>, SelfTestBins)
           k == argmax(spec.powers)
           rm == computeRMSSD(SelfTestIbis)
       IN out' = [kind |-> "selftest", noise |-> p, k |-> spec.freqs[k + 1],
                  passHR |-> WithinThreeOf72(spec.freqs[k + 1]),
                  rm |-> rm, passRM |-> (rm - 283 \in (0 - 50)..50)]
  /\ UNCHANGED <<now, env, mesh, rs, runningRef, st, video, tracks, calls, raf, ctl, used>>

\* goertzelSpectrum(x, 30, band, bins) for drawn band and bins.
SpectrumConfigs ==
  {<<<<0, 119>>, 120>>, <<<<0, 119>>, 2>>, <<<<0, 119>>, 1>>, <<<<0, 119>>, 0>>,
   <<<<119, 0>>, 120>>, <<<<0, 0>>, 120>>}

CallSpectrum ==
  /\ out.kind = "none"
  /\ \E c \in SpectrumConfigs :
       LET spec == goertzelSpectrum(SelfTestSignal(<<0, 1>>), c[1], c[2])
       IN out' = [kind |-> "spectrum", band |-> c[1], bins |-> c[2],
                  threw |-> spec.threw, freqs |-> spec.freqs,
                  k |-> argmax(spec.powers)]
  /\ UNCHANGED <<now, env, mesh, rs, runningRef, st, video, tracks, calls, raf, ctl, used>>

NextSpectrum ==
  \/ RunSelfTests
  \/ CallSpectrum

SpecSpectrum == InitSecure /\ [][NextSpectrum]_vars

\* SpecPeak: detectPeakAndIBI applied sample by sample to drawn buffers: an
\* alternating signal on sample clocks of 100 ms and 166 ms, with timestamps
\* that start below zero, pass through zero, or are positive throughout.
PeakDtSet == {100, 166}
PeakStartSet == {0 - 1262, 0 - 830, 1000}
PeakY == {0 - 100, 100}

InitPeak ==
  /\ now \in PeakStartSet
  /\ env = [secure |-> TRUE, hasMediaDevices |-> TRUE]
  /\ rs = InitRs
  /\ runningRef = FALSE
  /\ st = InitSt
  /\ video = [srcObject |-> 0, ready |-> FALSE, mounted |-> TRUE]
  /\ tracks = <<>>
  /\ calls = <<>>
  /\ raf = <<>>
  /\ out = [kind |-> "none", peaks |-> 0]
  /\ ctl = "none"
  /\ mesh = InitMesh
  /\ used = [ticks |-> 0, jitters |-> 0, calls |-> 0, demos |-> 0, calibrations |-> 0,
            rejects |-> 0, thrown |-> ""]

\* One sample is appended to t and bvp, then detectPeakAndIBI runs and its
\* interval is pushed as pushSample does.  out.peaks counts the accepted peaks.
PushDetect ==
  /\ used.ticks < MaxPeakTicks
  /\ \E d \in PeakDtSet :
       \E y \in (IF st.bvp = <<>> THEN PeakY ELSE PeakY \ {Last(st.bvp)}) :
         LET s1 == [st EXCEPT !.t = Append(@, now + d), !.gRaw = Append(@, y),
                              !.bvp = Append(@, y)]
             det == detectPeakAndIBI(s1, 10)
             newIBI == det.ibi # Null /\ det.ibi # 0
         IN /\ now' = now + d
            /\ st' = [s1 EXCEPT !.lastPeakT = det.lastPeakT,
                                !.ibis = IF newIBI THEN PushIbi(@, det.ibi) ELSE @]
            /\ out' = [kind |-> "detect",
                       cand |-> Len(s1.bvp) >= 5 /\ PeakAt(s1.bvp, 10),
                       tPeak |-> IF Len(s1.t) >= 2 THEN s1.t[Len(s1.t) - 1] ELSE Null,
                       ibi |-> det.ibi,
                       peaks |-> out.peaks + (IF det.lastPeakT # st.lastPeakT THEN 1 ELSE 0)]
  /\ used' = [used EXCEPT !.ticks = @ + 1]
  /\ UNCHANGED <<env, mesh, rs, runningRef, video, tracks, calls, raf, ctl>>

SpecPeak == InitPeak /\ [][PushDetect]_vars

\* SpecSegment: getLatestSegment applied to drawn buffers: samples numbered in
\* arrival order on strictly increasing timestamps, a frame, 5 s or 13 s apart,
\* and windows of 5 s and 12 s; the call is also made on the empty buffers.
SegDtSet == {SteadyDt, 5000, 13000}
SegWindowSet == {5000, SegmentSec}

InitSegment ==
  /\ now = 1000
  /\ env = [secure |-> TRUE, hasMediaDevices |-> TRUE]
  /\ rs = InitRs
  /\ runningRef = FALSE
  /\ st = InitSt
  /\ video = [srcObject |-> 0, ready |-> FALSE, mounted |-> TRUE]
  /\ tracks = <<>>
  /\ calls = <<>>
  /\ raf = <<>>
  /\ out = [kind |-> "none"]
  /\ ctl = "none"
  /\ mesh = InitMesh
  /\ used = [ticks |-> 0, jitters |-> 0, calls |-> 0, demos |-> 0, calibrations |-> 0,
            rejects |-> 0, thrown |-> ""]

\* A sample arrives: its timestamp goes to t and its number to bvp.
PushTime ==
  /\ used.ticks < MaxSegTicks
  /\ \E d \in SegDtSet :
       /\ now' = now + d
       /\ st' = [st EXCEPT !.t = Append(@, now + d), !.bvp = Append(@, used.ticks + 1)]
  /\ used' = [used EXCEPT !.ticks = @ + 1]
  /\ out' = [kind |-> "none"]
  /\ UNCHANGED <<env, mesh, rs, runningRef, video, tracks, calls, raf, ctl>>

\* getLatestSegment(st.bvp, st.t, w) on the buffers as they are.
CallSegment ==
  /\ out.kind = "none"
  /\ \E w \in SegWindowSet :
       LET r == getLatestSegment(st.bvp, st.t, w)
       IN out' = [kind |-> "segment", windowSec |-> w,
                  segment |-> r.segment, fsUsed |-> r.fsUsed]
  /\ UNCHANGED <<now, env, mesh, rs, runningRef, st, video, tracks, calls, raf, ctl, used>>

NextSegment ==
  \/ PushTime
  \/ CallSegment

SpecSegment == InitSegment /\ [][NextSegment]_vars

\* SpecArgmax: argmax applied to drawn arrays of powers (finite, non-negative,
\* with ties), the empty array included.
PowerVals == {0, 3, 7}
PowerArrays == UNION {[1..n -> PowerVals] : n \in 0..MaxPowers}

InitArgmax ==
  /\ now = 1000
  /\ env = [secure |-> TRUE, hasMediaDevices |-> TRUE]
  /\ rs = InitRs
  /\ runningRef = FALSE
  /\ st = InitSt
  /\ video = [srcObject |-> 0, ready |-> FALSE, mounted |-> TRUE]
  /\ tracks = <<>>
  /\ calls = <<>>
  /\ raf = <<>>
  /\ out \in {[kind |-> "none", powers |-> a] : a \in PowerArrays}
  /\ ctl = "none"
  /\ mesh = InitMesh
  /\ used = [ticks |-> 0, jitters |-> 0, calls |-> 0, demos |-> 0, calibrations |-> 0,
            rejects |-> 0, thrown |-> ""]

\* const k = argmax(spec.powers)
CallArgmax ==
  /\ out.kind = "none"
  /\ out' = [kind |-> "argmax", powers |-> out.powers, k |-> argmax(out.powers)]
  /\ UNCHANGED <<now, env, mesh, rs, runningRef, st, video, tracks, calls, raf, ctl, used>>

SpecArgmax == InitArgmax /\ [][CallArgmax]_vars

\* SpecMesh: the useFaceMesh hook on its own: the effect set up and cleaned up,
\* the library loading early or late, detect iterations and send() calls.
NextMesh ==
  \/ ScriptsLoad
  \/ EffectRuns
  \/ CleanupRuns
  \/ TimerFires
  \/ DetectFrame
  \/ SendSettles

SpecMesh == InitSecure /\ [][NextMesh]_vars

\* SpecTrim: trimBuffers applied after each append to drawn buffers: strictly
\* increasing timestamps a frame, 30 s or 61 s apart, and an IBI list that is
\* empty or holds one or two intervals.
TrimDtSet == {SteadyDt, 30000, 61000}
TrimIbiSet == {<<>>, <<800>>, <<800, 900>>}

InitTrim ==
  /\ now = 1000
  /\ env = [secure |-> TRUE, hasMediaDevices |-> TRUE]
  /\ rs = InitRs
  /\ runningRef = FALSE
  /\ st \in {[InitSt EXCEPT !.ibis = b] : b \in TrimIbiSet}
  /\ video = [srcObject |-> 0, ready |-> FALSE, mounted |-> TRUE]
  /\ tracks = <<>>
  /\ calls = <<>>
  /\ raf = <<>>
  /\ out = [kind |-> "none"]
  /\ ctl = "none"
  /\ mesh = InitMesh
  /\ used = [ticks |-> 0, jitters |-> 0, calls |-> 0, demos |-> 0, calibrations |-> 0,
            rejects |-> 0, thrown |-> ""]

\* A sample is appended to t, gRaw and bvp, then trimBuffers(st) runs.
\* out.shifted is the number of samples that left the head.
PushTrim ==
  /\ used.ticks < MaxTrimTicks
  /\ \E d \in TrimDtSet :
       /\ now' = now + d
       /\ st' = trimBuffers([st EXCEPT !.t = Append(@, now + d),
                                       !.gRaw = Append(@, GLo), !.bvp = Append(@, 0)])
       /\ out' = [kind |-> "trim", shifted |-> Len(st.t) + 1 - Len(st'.t)]
  /\ used' = [used EXCEPT !.ticks = @ + 1]
  /\ UNCHANGED <<env, mesh, rs, runningRef, video, tracks, calls, raf, ctl>>

SpecTrim == InitTrim /\ [][PushTrim]_vars

\* SpecFocus: the focus computation at the end of pushSample applied to drawn
\* inputs: the closure's hrBpm and baselines, and the IBI list after the push.
FocusHr == {Null, 42, 72, 180}
FocusBaseHR == {Null, 42, 180}
FocusBaseRMSSD == {Null, 1, 32, 1167}
FocusIbiVals == {331, 332, 1500}
FocusIbis == UNION {[1..n -> FocusIbiVals] : n \in 1..MaxFocusIbis} \cup {SelfTestIbis}

InitFocus ==
  /\ now = 1000
  /\ env = [secure |-> TRUE, hasMediaDevices |-> TRUE]
  /\ rs = [InitRs EXCEPT !.running = TRUE]
  /\ runningRef = TRUE
  /\ st \in {[InitSt EXCEPT !.ibis = b] : b \in FocusIbis}
  /\ video = [srcObject |-> 0, ready |-> FALSE, mounted |-> TRUE]
  /\ tracks = <<>>
  /\ calls = <<>>
  /\ raf \in {<<[demo |-> FALSE, hrBpm |-> h, baselineHR |-> bh, baselineRMSSD |-> br]>> :
                h \in FocusHr, bh \in FocusBaseHR, br \in FocusBaseRMSSD}
  /\ out = NoTick
  /\ ctl = "start"
  /\ mesh = InitMesh
  /\ used = [ticks |-> 0, jitters |-> 0, calls |-> 0, demos |-> 0, calibrations |-> 0,
            rejects |-> 0, thrown |-> ""]

ApplyFocus ==
  /\ out.kind = "none"
  /\ rs' = PublishFocus(rs, Head(raf), st.ibis)
  /\ out' = [NoTick EXCEPT !.kind = "focus", !.ibi = Last(st.ibis),
                           !.rm = computeRMSSD(st.ibis),
                           !.score = rs'.focusScore, !.cap = Head(raf)]
  /\ UNCHANGED <<now, env, mesh, runningRef, st, video, tracks, calls, raf, ctl, used>>

SpecFocus == InitFocus /\ [][ApplyFocus]_vars

\* ------------------------------------------------------------------------
\* Claims
\* ------------------------------------------------------------------------
Ticked == used'.ticks = used.ticks + 1
Pushed == Ticked /\ out'.kind \in {"camera", "demo"}

\* C1: after each pushSample (append, then trimBuffers) the buffered timestamps
\* span at most maxBufSec: t[last] - t[0] <= 60 s.
C1_SpanWithinRetention ==
  Len(st.t) > 0 => Last(st.t) - st.t[1] <= maxBufSec

\* C1 witness: samples older than the window have been trimmed from the head and
\* the buffer still holds several samples.
C1_Witness ==
  /\ used.ticks > Len(st.t)
  /\ Len(st.t) >= 2
  /\ Last(st.t) - st.t[1] > 0

\* C2 as claimed: a tick whose timestamp is not strictly greater than the last
\* stored one is rejected: the buffers, the IBI list and lastPeakT keep their
\* values and an error is reported.
C2_RejectsOutOfOrderTick ==
  [][(Pushed /\ Len(st.t) > 0 /\ now' <= Last(st.t))
       => /\ st'.t = st.t /\ st'.gRaw = st.gRaw /\ st'.bvp = st.bvp
          /\ st'.ibis = st.ibis /\ st'.lastPeakT = st.lastPeakT
          /\ rs'.lastError # "null"]_vars

\* C3 as claimed: no peak is accepted less than 0.333 s after the last accepted
\* one, so every interval in the IBI list is at least 333 ms.
C3_RefractoryThird ==
  \A i \in 1..Len(st.ibis) : 1000 * st.ibis[i] >= 333333

\* The score the claim C4 states: hrZ and rmZ computed from hr and rm whatever
\* their values (rm in tenths of a millisecond).
ClaimedFocus(hr, rm, baselineHR, baselineRMSSD) ==
  LET hrBase == IF baselineHR = Null THEN DefaultHrBase ELSE baselineHR
      rmBase == IF baselineRMSSD = Null THEN DefaultRmBase ELSE baselineRMSSD
  IN clamp(ScoreRaw(200 * (hr - hrBase), 12 * (10 * rmBase - rm), hrBase, rmBase), 0, 100)

\* C4 as claimed: a tick that produces a focus score produces
\* clamp(round(50 + 20*hrZ + 30*rmZ), 0, 100) with hr the heart rate most recently
\* output by the spectral estimator and rm the RMSSD of that tick, rm = 0 included.
C4_FocusFromLatestHrAndRm ==
  (out.kind = "camera" /\ out.score # Null /\ rs.hrBpm # Null /\ out.rm # Null)
    => out.score = ClaimedFocus(rs.hrBpm, out.rm, out.cap.baselineHR, out.cap.baselineRMSSD)

\* C5: every focus score published is an integer in [0, 100], for any heart
\* rate, RMSSD and baselines.
C5_FocusBounded ==
  rs.focusScore # Null => rs.focusScore \in 0..100

\* C5 witness: a score was published where the rounded sum 50 + 20*hrZ + 30*rmZ
\* itself lies above 100.
C5_Witness ==
  /\ out.kind = "focus"
  /\ rs.focusScore = 100
  /\ FocusRaw(out.cap.hrBpm, out.rm, out.cap.baselineHR, out.cap.baselineRMSSD) > 100

\* C6 as claimed: a tick publishes a focus score only if a heart-rate estimate
\* exists and RMSSD was computed (at least 3 IBIs) on that tick.
C6_FocusOnlyWithSources ==
  (out.kind = "camera" /\ out.score # Null) => (rs.hrBpm # Null /\ out.rm # Null)

\* C7 as claimed: once a baseline has been set, the focus score of every later
\* tick is computed against the set baseline values.
C7_FocusUsesSetBaseline ==
  [][(Pushed /\ out'.score # Null /\ rs.baselineHR # Null)
       => out'.score = FocusScore(out'.cap.hrBpm, out'.rm,
                                  rs.baselineHR, rs.baselineRMSSD)]_vars

\* C8 as claimed: re-deriving the filters on a tick changes only the
\* coefficients: the step of that tick shifts the stage's previous input and
\* output into its history (x2 = old x1, y2 = old y1).
C8_FilterHistoryRetained ==
  [][Pushed => /\ st'.hp.x2 = st.hp.x1 /\ st'.hp.y2 = st.hp.y1
               /\ st'.lp.x2 = st.lp.x1 /\ st'.lp.y2 = st.lp.y1]_vars

\* C9 as claimed: once stop() has been called and no start has been called since,
\* no loop callback passes the running check: no pushSample, no rescheduling.
C9_NoTickAfterStop ==
  [][(ctl = "stop" /\ ctl' = "stop") => ~Ticked]_vars

\* C10 as claimed: while the app is in demo mode (startDemo was the last start to
\* take effect), every loop tick feeds pushSample one synthetic sample.
C10_DemoTickFeedsSynthetic ==
  [][(rs.demo /\ runningRef /\ Ticked) => out'.kind = "demo"]_vars

\* C11: on every loop callback past the running check the sampling rate fs is an
\* integer in [10, 90], and the instantaneous rate that enters the EMA is
\* 1 / max(dt, 1/120), i.e. between 0 and 120 Hz, whatever dt is (zero, negative
\* or very large).
C11_RateWithinBand ==
  [][Ticked => /\ out'.fs \in 10..90
               /\ 10 * st'.fpsEMA - 9 * st.fpsEMA \in (0 - 5)..120005
               /\ \A d \in {0 - 61000, 0 - 1, 0, 8} : InstFps(d) = 120000]_vars

\* C11 witness: after repeated clock readings (dt = 0) the EMA lies above 90 Hz
\* and the callback's fs is 90.
C11_Witness ==
  /\ out.kind = "notReady"
  /\ st.fpsEMA > 90500
  /\ out.fs = 90

\* C12: the IBI list never holds more than 20 entries, and a tick that appends
\* an interval to a full list evicts exactly the oldest entry and keeps the
\* order of the others.
C12_IbiListCapped ==
  [][(Pushed /\ out'.ibi # Null)
       => /\ Len(st'.ibis) <= MaxIbis
          /\ st'.ibis = Append(IF Len(st.ibis) = MaxIbis THEN Tail(st.ibis) ELSE st.ibis,
                               out'.ibi)]_vars

\* C12 witness: the list is full, an interval was appended on this tick, and the
\* stored intervals no longer reach back to the first accepted peak (the first
\* six frames end before 2.5 s): the oldest has been evicted.
C12_Witness ==
  /\ out.kind = "camera" /\ out.ibi # Null
  /\ Len(st.ibis) = MaxIbis
  /\ st.lastPeakT - SumSeq(st.ibis) > 2500

\* C13: after each pushSample the sequences t, gRaw and bvp have the same
\* length, and the tick removed the same number n of head entries from all
\* three: each is its old value plus the new sample, less its first n entries.
C13_ParallelBuffers ==
  [][Pushed
       => /\ Len(st'.t) = Len(st'.gRaw) /\ Len(st'.gRaw) = Len(st'.bvp)
          /\ \E n \in 0..Len(st.t) :
               /\ st'.t = Drop(Append(st.t, now'), n)
               /\ st'.gRaw = Drop(Append(st.gRaw, Last(st'.gRaw)), n)
               /\ st'.bvp = Drop(Append(st.bvp, Last(st'.bvp)), n)]_vars

\* C13 witness: a tick after a stall has trimmed samples from the head and the
\* three sequences still hold several samples.
C13_Witness ==
  /\ out.kind = "camera"
  /\ Len(st.t) >= 2 /\ Len(st.gRaw) = Len(st.t) /\ Len(st.bvp) = Len(st.t)
  /\ used.ticks >= Len(st.t) + 2

\* The analysis segment of C14: the samples of the last 12 s, L of them over
\* span ms, and whether L <= 4 * fsUsed with fsUsed = min(90, max(10, 1 / dt)),
\* dt = span / max(1, L - 1) (fsUsed = 30 when span is 0).
C14_SegmentShort(t) ==
  LET cut == {i \in 1..Len(t) : t[i] < Last(t) - SegmentSec}
      i0 == IF cut = {} THEN 1 ELSE MaxOfSet(cut) + 1
      L == Len(t) - i0 + 1
      span == Last(t) - t[i0]
  IN IF span <= 0 THEN L <= 120
     ELSE L <= 40 \/ (L <= 360 /\ L * span <= 4000 * Max(1, L - 1))

\* C14: on a tick whose analysis segment has at most 4 x fsUsed samples the
\* spectral estimator is skipped: hrBpm and snr keep their values.
C14_ShortSegmentSkipsSpectral ==
  [][(Pushed /\ C14_SegmentShort(st'.t))
       => /\ ~out'.hrUpdated
          /\ rs'.hrBpm = rs.hrBpm
          /\ rs'.snr = rs.snr]_vars

\* C14 witness: a tick whose segment holds exactly 40 samples at fsUsed = 10
\* (frames 166 ms apart), the largest segment that is still skipped.
C14_Witness ==
  /\ out.kind = "camera"
  /\ Len(st.t) = 40
  /\ Last(st.t) - st.t[1] = 39 * SteadyDt
  /\ ~out.hrUpdated
  /\ rs.hrBpm = Null

\* The sum of the squared successive differences of C15 (ms^2).
C15_SumSq(ibis) ==
  SumSeq([i \in 1..(Len(ibis) - 1) |-> (ibis[i] - ibis[i + 1]) * (ibis[i] - ibis[i + 1])])

\* The general part of C15: NaN below 3 intervals, otherwise rm (tenths of a
\* millisecond) is the floor of the square root of the mean of the n - 1 squared
\* successive differences.
C15_RootMeanSquare(ibis, rm) ==
  LET n == Len(ibis)
      S == C15_SumSq(ibis)
  IN /\ n < 3 => rm = Null
     /\ n >= 3 => /\ rm >= 0
                  /\ rm * rm * (n - 1) <= 100 * S
                  /\ (rm + 1) * (rm + 1) * (n - 1) > 100 * S

C16_NothingStarted ==
  /\ tracks' = tracks
  /\ raf' = raf
  /\ rs'.running = rs.running
  /\ runningRef' = runningRef

\* C16: a startCamera call in an insecure context, without media devices, or
\* whose permission query answers 'denied' requests no camera stream, does not
\* start the loop, leaves running unchanged and sets lastError to
\* InsecureContext, NoMediaDevices or PermissionDenied respectively; no call
\* gets as far as getUserMedia unless the context is secure and has media
\* devices.
C16_StartCameraGuards ==
  [][/\ (used'.calls # used.calls /\ ~(env.secure /\ env.hasMediaDevices))
          => /\ C16_NothingStarted
             /\ calls' = calls
             /\ rs'.lastError = IF ~env.secure THEN "InsecureContext" ELSE "NoMediaDevices"
     /\ (\E i \in 1..Len(calls) : calls[i].pc = "perm" /\ calls' = RemoveAt(calls, i))
          => /\ C16_NothingStarted
             /\ rs'.lastError = "PermissionDenied"
     /\ (tracks' # <<>> \/ \E i \in 1..Len(calls') : calls'[i].pc \in {"gum", "play"})
          => (env.secure /\ env.hasMediaDevices)]_vars

\* C16 witness: a startCamera call ended on a denied permission: the error is
\* recorded, no stream exists, no loop callback is pending, running is false.
C16_Witness ==
  /\ rs.lastError = "PermissionDenied"
  /\ used.calls > 0
  /\ tracks = <<>> /\ raf = <<>> /\ calls = <<>>
  /\ ~rs.running /\ ~runningRef

\* C17 as claimed: a spectrum call with an invalid configuration (bins < 2 or a
\* band with f0 >= f1) reports an error instead of returning a result.
C17_InvalidConfigFails ==
  (out.kind = "spectrum" /\ (out.bins < 2 \/ out.band[1] >= out.band[2])) => out.threw

\* C18: in the spectral self test (1.2 Hz sinusoid of amplitude 8, 30 Hz, 12 s,
\* additive noise within +-0.75) the frequency of the largest of the 120 bins,
\* times 60, lies within 3 of 72 bpm.
C18_SelfTestFinds72 ==
  out.kind = "selftest" => (WithinThreeOf72(out.k) /\ out.passHR)

\* C18 witness: the self test ran on a signal with noise of amplitude 0.7 and
\* its largest bin is the one nearest 1.2 Hz (bin 26, 72.2 bpm).
C18_Witness ==
  /\ out.kind = "selftest"
  /\ out.noise[1] = 7
  /\ out.k = 26

\* The refractory rule as the code applies it to a candidate at tPeak.
PassesRefractory(lastPeakT, tPeak) == lastPeakT < 0 \/ tPeak - lastPeakT > RefractoryMs

\* C19: a candidate peak that the refractory rule rejects changes nothing:
\* lastPeakT keeps the timestamp of the last accepted peak, no interval is
\* emitted and the IBI list is unchanged by that tick.
C19_RejectedPeakIgnored ==
  [][(Ticked /\ out'.kind = "detect" /\ out'.cand
        /\ ~PassesRefractory(st.lastPeakT, out'.tPeak))
       => /\ st'.lastPeakT = st.lastPeakT
          /\ out'.ibi = Null
          /\ st'.ibis = st.ibis]_vars

\* C19 witness: a candidate 200 ms after the last accepted peak was rejected.
C19_Witness ==
  /\ out.kind = "detect" /\ out.cand
  /\ out.peaks > 0
  /\ out.tPeak - st.lastPeakT = 200
  /\ out.ibi = Null

C21_LatestSegmentIsSuffix ==
  out.kind = "segment"
    => LET t == st.t
           sig == st.bvp
           seg == out.segment
           keep == {i \in 1..Len(t) : t[i] >= Last(t) - out.windowSec}
           first == Len(sig) - Len(seg) + 1
       IN /\ Len(seg) = Cardinality(keep)
          /\ keep = first..Len(t)
          /\ \A k \in 1..Len(seg) : seg[k] = sig[first + k - 1]
          /\ \A j \in 1..Len(t) : (Last(t) - t[j] <= out.windowSec) <=> j >= first
          /\ (Len(t) = 0) => seg = <<>>

\* C21 witness: a call that left stale samples out and kept several.
C21_Witness ==
  /\ out.kind = "segment"
  /\ Len(out.segment) >= 2
  /\ Len(st.t) >= Len(out.segment) + 2

\* C22: argmax over the powers returns the lowest index that holds the maximum:
\* no entry is larger than the chosen one and every entry before it is smaller.
C22_ArgmaxFirstOfTies ==
  (out.kind = "argmax" /\ Len(out.powers) > 0)
    => /\ out.k + 1 \in 1..Len(out.powers)
       /\ \A j \in 1..Len(out.powers) : out.powers[j] <= out.powers[out.k + 1]
       /\ \A j \in 1..out.k : out.powers[j] < out.powers[out.k + 1]

\* C22 witness: the maximum is held by two bins after a smaller one, and the
\* first of the two is returned.
C22_Witness ==
  /\ out.kind = "argmax"
  /\ out.powers = <<3, 7, 0, 7>>
  /\ out.k = 1

\* A step on which startCamera's catch block handles a rejection of
\* getUserMedia or video.play().
Rejected == used'.rejects = used.rejects + 1

\* C23: when getUserMedia or video.play() rejects inside startCamera, running
\* is false afterwards, lastError is the name of the error (UnknownError for an
\* error without a name), and the call ends without scheduling a loop callback.
C23_RejectionEndsNotRunning ==
  [][Rejected
       => /\ ~rs'.running
          /\ rs'.lastError = (IF used'.thrown = "" THEN "UnknownError" ELSE used'.thrown)
          /\ raf' = raf
          /\ Len(calls') = Len(calls) - 1]_vars

\* C23 witness: play() rejected with a named error while the demo was running.
C23_Witness ==
  /\ used.rejects = 1 /\ used.thrown = "AbortError"
  /\ rs.lastError = "AbortError"
  /\ rs.demo /\ ~rs.running
  /\ calls = <<>>

\* C24 as claimed: after any sequence of startCamera, startDemo and stop at most
\* one requestAnimationFrame(loop) callback is pending.
C24_OneLoopChain == Len(raf) <= 1

\* C25 as claimed: every MediaStream obtained from getUserMedia is held in
\* st.stream or has its tracks stopped (a stream still in the hands of the
\* startCamera call awaiting play() is not counted against the claim).
C25_StreamsHeldOrStopped ==
  \A i \in 1..Len(tracks) :
    tracks[i] => \/ st.stream = i
                 \/ \E c \in 1..Len(calls) : calls[c].stream = i

\* C26 as claimed: whenever no startCamera call is suspended at an await, the
\* running state and runningRef.current agree.
C26_RunningAgreesWithRef ==
  (calls = <<>> /\ video.mounted) => rs.running = runningRef

\* C27 as claimed: once the effect's cleanup has run, no detect iteration of
\* that effect is scheduled and no FaceMesh instance it created is open: every
\* pending detect callback and every open instance belongs to the effect that
\* is in force.
C27_CleanupEndsDetection ==
  /\ \A r \in mesh.rafs : mesh.active /\ r.gen = mesh.gen
  /\ \A i \in 1..Len(mesh.instances) :
       mesh.instances[i].open => (mesh.active /\ mesh.instances[i].gen = mesh.gen)

\* C28: over strictly increasing timestamps trimBuffers leaves the IBI list as
\* it was: once the head-trim is done the buffer spans at most maxBufSec.
C28_TrimKeepsIbis ==
  [][(out'.kind = "trim" /\ Ticked)
       => /\ st'.ibis = st.ibis
          /\ (Len(st'.t) > 0 => Last(st'.t) - st'.t[1] <= maxBufSec)]_vars

\* C28 witness: a call that trimmed samples from the head, left several in the
\* buffer and found a non-empty IBI list.
C28_Witness ==
  /\ out.kind = "trim"
  /\ out.shifted >= 1
  /\ Len(st.t) >= 2
  /\ Len(st.ibis) = 2


\* C29: every interval stored in the IBI list is at most maxBufSec long, also
\* across stop followed by a restart and across gaps between ticks.
C29_IbisWithinRetention == \A i \in 1..Len(st.ibis) : st.ibis[i] <= maxBufSec


\* C30: in the standalone variant, once startDemo or a successful startCamera
\* has scheduled the loop and until stop() is called, a callback that runs
\* processes its tick and reschedules itself.
C30_StandaloneLoopRuns ==
  [][(ctl = "start" /\ raf' # raf /\ Len(raf') <= Len(raf))
       => (Len(raf') = Len(raf) /\ Ticked)]_vars

=============================================================================
